---------------------------- MODULE Spec2Model ----------------------------
(***************************************************************************)
(* Text Utilities MCP server: the stdio variant's tool dispatcher          *)
(* (validateInput, withTimeout, toolHandlers, the CallTool and ListTools   *)
(* request handlers), alone and with several invocations in flight; the    *)
(* HTTP/SSE variant's session map (GET /sse, POST /message, GET /health)   *)
(* and its CallTool handler; fisherYatesShuffle and word_count on their    *)
(* own.                                                                    *)
(*                                                                         *)
(* Strings are run-length encoded: a string is a sequence of runs          *)
(* [ch, n] (n >= 1 copies of the character ch), so that texts around the   *)
(* 1,000,000 character limit are ordinary values of the model.             *)
(***************************************************************************)
EXTENDS Integers, Sequences, FiniteSets

\* ------------------------------------------------------------------------
\* Program constants
\* ------------------------------------------------------------------------
TOOL_TIMEOUT_MS == 30000

MAX_INPUT_LENGTH == 1000000

\* ------------------------------------------------------------------------
\* Bounds of the model
\* ------------------------------------------------------------------------
\* timers of earlier races that may still be pending when a race begins (a
\* timer is never cancelled)
MaxStale == 1

\* session identifiers the transport may generate
MaxSessions == 2

\* messages one transport accepts before the model stops posting to it
MaxInbox == 1

\* characters of the texts given to a stepwise run of the shuffle
MaxShuffleLen == 3

\* characters of the texts given to word_count on its own
MaxWordsLen == 4

\* invocations that may be in flight together
MaxCalls == 2

\* ------------------------------------------------------------------------
\* Strings (run-length encoded)
\* ------------------------------------------------------------------------
Run(c, k) == [ch |-> c, n |-> k]

Rep(c, k) == IF k = 0 THEN <<>> ELSE <<Run(c, k)>>

RECURSIVE StrLen(_)
StrLen(s) == IF s = <<>> THEN 0 ELSE Head(s).n + StrLen(Tail(s))

\* adjacent runs of one character are merged: one value per string
RECURSIVE Canon(_)
Canon(s) ==
  IF Len(s) <= 1 THEN s
  ELSE LET r == Canon(Tail(s)) IN
       IF Head(s).ch = Head(r).ch
       THEN <<Run(Head(s).ch, Head(s).n + Head(r).n)>> \o Tail(r)
       ELSE <<Head(s)>> \o r

\* text.split(""): one element per character
RECURSIVE Expand(_)
Expand(s) ==
  IF s = <<>> THEN <<>>
  ELSE IF Head(s).n = 1 THEN <<Head(s).ch>> \o Expand(Tail(s))
  ELSE <<Head(s).ch>> \o Expand(<<Run(Head(s).ch, Head(s).n - 1)>> \o Tail(s))

\* chars.join("")
Join(chars) == Canon([i \in 1..Len(chars) |-> Run(chars[i], 1)])

\* the characters /\s/ matches and trim() strips
IsSpace(c) == c \in {" ", "\t"}

ToUpper(c) == CASE c = "a" -> "A" [] c = "b" -> "B" [] OTHER -> c

ToLower(c) == CASE c = "A" -> "a" [] c = "B" -> "b" [] OTHER -> c

\* text.split("").reverse().join("")
Reverse(s) == [i \in 1..Len(s) |-> s[Len(s) + 1 - i]]

\* text.toUpperCase()
toUpperCase(s) == Canon([i \in 1..Len(s) |-> Run(ToUpper(s[i].ch), s[i].n)])

\* text.toLowerCase()
toLowerCase(s) == Canon([i \in 1..Len(s) |-> Run(ToLower(s[i].ch), s[i].n)])

RECURSIVE TrimStart(_)
TrimStart(s) ==
  IF s # <<>> /\ IsSpace(Head(s).ch) THEN TrimStart(Tail(s)) ELSE s

\* text.trim()
Trim(s) == Reverse(TrimStart(Reverse(TrimStart(s))))

\* text.split(/\s+/): the segments between maximal runs of whitespace; the
\* empty string splits into one empty segment
RECURSIVE SplitWs(_)
SplitWs(s) ==
  IF s = <<>> THEN << <<>> >>
  ELSE IF IsSpace(Head(s).ch)
       THEN IF Len(s) > 1 /\ IsSpace(s[2].ch)
            THEN SplitWs(Tail(s))
            ELSE << <<>> >> \o SplitWs(Tail(s))
       ELSE LET rest == SplitWs(Tail(s)) IN
            << <<Head(s)>> \o Head(rest) >> \o Tail(rest)

\* a filter that keeps every segment
FilterNothing(segs) == segs

\* words.filter((word) => word.length > 0)
FilterNonEmpty(segs) == SelectSeq(segs, LAMBDA w : StrLen(w) > 0)

\* text.replace(/\s/g, "")
RemoveSpaces(s) == Canon(SelectSeq(s, LAMBDA r : ~IsSpace(r.ch)))

\* an exchange that writes only one of the two elements
SwapOverwrite(chars, i, j) ==
  [k \in 1..Len(chars) |-> IF k = i + 1 THEN chars[j + 1] ELSE chars[k]]

\* [chars[i], chars[j]] = [chars[j], chars[i]], on 0-based indices
Swap(chars, i, j) ==
  [k \in 1..Len(chars) |->
     IF k = i + 1 THEN chars[j + 1] ELSE IF k = j + 1 THEN chars[i + 1] ELSE chars[k]]

\* the values Math.random() may produce for a text of n characters, as the
\* index j = floor(random * (i + 1)) drawn at each i = n-1 .. 1
Draws(n) == {d \in [1..(n - 1) -> 0..(n - 1)] : \A i \in 1..(n - 1) : d[i] <= i}

RECURSIVE FYLoop(_, _, _)
FYLoop(chars, i, draws) ==
  IF i > 0 THEN FYLoop(Swap(chars, i, draws[i]), i - 1, draws) ELSE chars

\* A text of at most one run holds copies of one character: every swap
\* exchanges equal elements and the loop leaves the array as it is, so the
\* million-character texts of the model need no draws.
Uniform(text) == Len(text) <= 1

DrawsFor(text) == IF Uniform(text) THEN {<<>>} ELSE Draws(StrLen(text))

fisherYatesShuffle(text, draws) ==
  IF Uniform(text) THEN text
  ELSE Join(FYLoop(Expand(text), StrLen(text) - 1, draws))


\* ------------------------------------------------------------------------
\* JavaScript values
\* ------------------------------------------------------------------------
Undefined == [t |-> "undefined"]

Null == [t |-> "null"]

Num(v) == [t |-> "number", v |-> v]

Bool(b) == [t |-> "boolean", v |-> b]

EmptyObject == [t |-> "object"]

EmptyArray == [t |-> "array"]

Str(s) == [t |-> "string", v |-> s]

\* typeof x
TypeOf(x) ==
  CASE x.t = "null" -> "object"
    [] x.t = "array" -> "object"
    [] OTHER -> x.t

\* ToBoolean(x)
Truthy(x) ==
  CASE x.t = "undefined" -> FALSE
    [] x.t = "null" -> FALSE
    [] x.t = "number" -> x.v # 0
    [] x.t = "boolean" -> x.v
    [] x.t = "string" -> x.v # <<>>
    [] OTHER -> TRUE

\* x || y
Or(x, y) == IF Truthy(x) THEN x ELSE y

\* the arguments object of a request: {text: v}, {} or no arguments at all
ArgsObject(v) == [t |-> "args", text |-> v]

NoTextArgs == [t |-> "args"]

\* args?.text
OptionalText(args) ==
  IF args.t \in {"undefined", "null"} THEN Undefined
  ELSE IF "text" \in DOMAIN args THEN args.text
  ELSE Undefined

\* completions of a call
Return(v) == [type |-> "return", value |-> v]

Throw(e) == [type |-> "throw", error |-> e]

None == [type |-> "none"]

\* ------------------------------------------------------------------------
\* Error messages
\* ------------------------------------------------------------------------
InvalidTypeError(toolName, got) ==
  [message |-> "Invalid input type", tool |-> toolName, got |-> got]

InputTooLargeError(toolName, length) ==
  [message |-> "Input too large", tool |-> toolName, length |-> length,
   maximum |-> MAX_INPUT_LENGTH]

TimeoutError(toolName, timeoutMs) ==
  [message |-> "timed out", tool |-> toolName, ms |-> timeoutMs]

UnknownToolError(name, available) ==
  [message |-> "Unknown tool", name |-> name, available |-> available]

NotAFunctionError == [message |-> "toolHandlers[name] is not a function"]

\* ------------------------------------------------------------------------
\* validateInput
\* ------------------------------------------------------------------------
\* the length check with >= in place of >
validateInputOffByOne(text, toolName) ==
  IF TypeOf(text) # "string"
  THEN Throw(InvalidTypeError(toolName, TypeOf(text)))
  ELSE IF StrLen(text.v) >= MAX_INPUT_LENGTH
  THEN Throw(InputTooLargeError(toolName, StrLen(text.v)))
  ELSE Return(text)

validateInput(text, toolName) ==
  IF TypeOf(text) # "string"
  THEN Throw(InvalidTypeError(toolName, TypeOf(text)))
  ELSE IF StrLen(text.v) > MAX_INPUT_LENGTH
  THEN Throw(InputTooLargeError(toolName, StrLen(text.v)))
  ELSE Return(text)

\* ------------------------------------------------------------------------
\* Tool implementations
\* ------------------------------------------------------------------------
\* {content: [{type: "text", text: JSON.stringify(payload)}]}
TextContent(payload) == [content |-> <<[type |-> "text", text |-> payload]>>]

Plural(count) == IF count # 1 THEN "s" ELSE ""

reverse_text(text) ==
  TextContent([success |-> TRUE, tool |-> "reverse_text",
               input_length |-> StrLen(text), result |-> Reverse(text)])

uppercase_text(text) ==
  TextContent([success |-> TRUE, tool |-> "uppercase_text",
               input_length |-> StrLen(text), result |-> toUpperCase(text)])

lowercase_text(text) ==
  TextContent([success |-> TRUE, tool |-> "lowercase_text",
               input_length |-> StrLen(text), result |-> toLowerCase(text)])

word_count(text) ==
  LET count == Len(FilterNonEmpty(SplitWs(Trim(text)))) IN
  TextContent([success |-> TRUE, tool |-> "word_count",
               input_length |-> StrLen(text), word_count |-> count,
               result |-> <<count, " word", Plural(count)>>])

\* character_count without the result field
character_countNoResult(text) ==
  TextContent([success |-> TRUE, tool |-> "character_count",
               total_characters |-> StrLen(text),
               characters_without_spaces |-> StrLen(RemoveSpaces(text))])

character_count(text) ==
  LET total == StrLen(text)
      withoutSpaces == StrLen(RemoveSpaces(text)) IN
  TextContent([success |-> TRUE, tool |-> "character_count",
               total_characters |-> total,
               characters_without_spaces |-> withoutSpaces,
               result |-> <<total, " total character", Plural(total),
                            withoutSpaces, " without spaces">>])

shuffle_text(text, draws) ==
  TextContent([success |-> TRUE, tool |-> "shuffle_text",
               input_length |-> StrLen(text),
               result |-> fisherYatesShuffle(text, draws)])

\* the own properties of the toolHandlers object literal, in key order
ToolHandlerKeys ==
  <<"reverse_text", "uppercase_text", "lowercase_text", "word_count",
    "character_count", "shuffle_text">>

\* toolHandlers is a plain object literal: besides its own keys it answers a
\* property read with what it inherits from Object.prototype
ObjectPrototypeKeys == {"toString", "__proto__"}

\* toolDefinitions: name and input schema of each entry
ToolDefinition(name) ==
  [name |-> name,
   inputSchema |-> [type |-> "object", properties |-> <<"text">>,
                    required |-> <<"text">>]]

\* the definitions with the last two entries exchanged
ToolDefinitionsReordered ==
  <<ToolDefinition("reverse_text"), ToolDefinition("uppercase_text"),
    ToolDefinition("lowercase_text"), ToolDefinition("word_count"),
    ToolDefinition("shuffle_text"), ToolDefinition("character_count")>>

ToolDefinitions ==
  <<ToolDefinition("reverse_text"), ToolDefinition("uppercase_text"),
    ToolDefinition("lowercase_text"), ToolDefinition("word_count"),
    ToolDefinition("character_count"), ToolDefinition("shuffle_text")>>

Range(f) == {f[i] : i \in DOMAIN f}

\* ------------------------------------------------------------------------
\* Promises and the timeout guard
\* ------------------------------------------------------------------------
NoPromise == [state |-> "none"]

Pending == [state |-> "pending"]

Fulfilled(v) == [state |-> "fulfilled", value |-> v]

Rejected(e) == [state |-> "rejected", reason |-> e]

IsSettled(p) == p.state \in {"fulfilled", "rejected"}

\* a promise that takes every outcome, the last one winning
SettleLast(p, outcome) == outcome

\* resolve/reject of a promise: only a pending promise takes the outcome
Settle(p, outcome) == IF p.state = "pending" THEN outcome ELSE p

\* Promise.resolve(value)
PromiseResolve(value) == Fulfilled(value)

NoTimer == [tool |-> "", ms |-> 0, remaining |-> 0, set |-> FALSE]

\* setTimeout(() => reject(new Error(...)), timeoutMs)
SetTimeout(toolName, timeoutMs) ==
  [tool |-> toolName, ms |-> timeoutMs, remaining |-> timeoutMs, set |-> TRUE]

\* withTimeout returns the race, still pending: it reacts to its two
\* promises in later jobs
withTimeout(promise, timeoutMs, toolName) ==
  [work |-> promise, race |-> Pending, timer |-> SetTimeout(toolName, timeoutMs)]

Less(a, dt) == IF a > dt THEN a - dt ELSE 0

\* time passing by dt milliseconds
Elapse(tm, dt) == [tm EXCEPT !.remaining = Less(@, dt)]

ElapseAll(ts, dt) == [i \in 1..Len(ts) |-> Less(ts[i], dt)]

\* A new race begins. The race before it is settled (its caller went on), so
\* its timer, when it fires, can only reject a settled promise: of such a
\* timer the model keeps the time it has left.
Retire(ts, tm) == IF tm.set THEN Append(ts, tm.remaining) ELSE ts

RemoveAt(ts, i) == [k \in 1..(Len(ts) - 1) |-> IF k < i THEN ts[k] ELSE ts[k + 1]]

\* ------------------------------------------------------------------------
\* State
\* ------------------------------------------------------------------------
VARIABLES
  toolHandlers,     \* own keys of the handler registry, in key order
  toolDefinitions,  \* the tool definitions array
  request,          \* the request being (or last) handled
  pc,               \* "idle", "awaiting" (suspended at the await), "done"
  work,             \* the promise raced against the timer
  race,             \* the promise withTimeout returned
  timer,            \* the timer of race
  stale,            \* time left on the pending timers of earlier races
  response,         \* what the request handler gave its caller
  responses,        \* number of responses given for request
  invoked,          \* the call toolHandlers[name](text) made for request
  elapsed,          \* ms between the request's arrival and now or its answer
  activeTransports, \* session map: sessionId -> transport
  sessions,         \* per generated session id: its connection
  inbox,            \* per transport: messages handed to handlePostMessage
  httpResponse,     \* the exchange of the HTTP request just handled
  shuffling,        \* a run of fisherYatesShuffle: its text, chars, i, result
  probe,            \* a handler applied on its own: its input and completion
  calls             \* invocations in flight together: each one's own state

toolVars == <<toolHandlers, toolDefinitions>>

httpVars == <<activeTransports, sessions, inbox, httpResponse>>

pureVars == <<shuffling, probe>>

dispatchVars == <<request, pc, work, race, timer, stale, response, responses,
                  invoked, elapsed>>

vars == <<toolHandlers, toolDefinitions, request, pc, work, race, timer, stale,
          response, responses, invoked, elapsed, activeTransports, sessions,
          inbox, httpResponse, shuffling, probe, calls>>

NoRequest == [method |-> "none"]

CallToolRequest(name, args) ==
  [method |-> "tools/call", name |-> name, arguments |-> args]

ListToolsRequest == [method |-> "tools/list"]

NoCall == [name |-> "", text |-> Undefined]

\* ------------------------------------------------------------------------
\* Inputs
\* ------------------------------------------------------------------------
SampleText == <<Run("a", 1), Run(" ", 1), Run("B", 1)>>

TextValues ==
  {Null, Num(0), Num(7), Bool(FALSE), Bool(TRUE), EmptyObject, EmptyArray,
   Str(<<>>), Str(SampleText), Str(Rep("a", MAX_INPUT_LENGTH)),
   Str(Rep("a", MAX_INPUT_LENGTH + 1))}

ArgsInputs == {Undefined, NoTextArgs} \cup {ArgsObject(v) : v \in TextValues}

RequestedNames ==
  Range(ToolHandlerKeys) \cup {"nonexistent_tool"} \cup ObjectPrototypeKeys

\* how long a synchronous handler run may take, in ms
HandlerDurations == {0, TOOL_TIMEOUT_MS + 1}

\* ------------------------------------------------------------------------
\* The tools/call handler (stdio variant)
\* ------------------------------------------------------------------------
\* toolHandlers[name]: an own handler, an inherited member of
\* Object.prototype, or undefined
GetHandler(handlers, name) ==
  IF name \in Range(handlers) THEN [t |-> "function", own |-> TRUE]
  ELSE IF name = "toString" THEN [t |-> "function", own |-> FALSE]
  ELSE IF name = "__proto__" THEN [t |-> "object"]
  ELSE Undefined

\* toolHandlers[name](text)
InvokeHandler(handlers, name, text, draws) ==
  LET h == GetHandler(handlers, name) IN
  IF h.t # "function" THEN Throw(NotAFunctionError)
  ELSE IF ~h.own THEN Return([t |-> "string", literal |-> "[object Object]"])
  ELSE Return(CASE name = "reverse_text" -> reverse_text(text)
                [] name = "uppercase_text" -> uppercase_text(text)
                [] name = "lowercase_text" -> lowercase_text(text)
                [] name = "word_count" -> word_count(text)
                [] name = "character_count" -> character_count(text)
                [] name = "shuffle_text" -> shuffle_text(text, draws))

\* the error response without the isError flag
ErrorResultUnflagged(name, error) ==
  [content |-> <<[type |-> "text",
                  text |-> [success |-> FALSE, tool |-> name, error |-> error]]>>]

\* the catch block's structured error response
ErrorResult(name, error) ==
  [content |-> <<[type |-> "text",
                  text |-> [success |-> FALSE, tool |-> name, error |-> error]]>>,
   isError |-> TRUE]

\* the rest of the try block after the await, and the catch block
Respond(name, settled) ==
  IF settled.state = "fulfilled" THEN Return(settled.value)
  ELSE Return(ErrorResult(name, settled.reason))

\* const text = validateInput(args?.text || "", name)
ExtractAndValidate(name, args) ==
  validateInput(Or(OptionalText(args), Str(<<>>)), name)

\* whether a request gets as far as calling toolHandlers[name](text)
Invokes(handlers, name, args) ==
  /\ Truthy(GetHandler(handlers, name))
  /\ ExtractAndValidate(name, args).type = "return"

\* the draws and the running time a request can consume
DrawsOf(name, args) ==
  IF name = "shuffle_text" /\ ExtractAndValidate(name, args).type = "return"
  THEN DrawsFor(ExtractAndValidate(name, args).value.v)
  ELSE {<<>>}

DurationsOf(name, args) ==
  IF Invokes(ToolHandlerKeys, name, args) THEN HandlerDurations ELSE {0}

\* a reaction job is queued: it runs before any timer or new request
MicrotaskPending == pc = "awaiting" /\ IsSettled(work)

\* A request arrives. The request before it was answered, so the race it
\* waited on is settled and only that race's timer is left of it.
Arrive ==
  /\ pc # "awaiting"
  /\ Len(Retire(stale, timer)) <= MaxStale

\* server.setRequestHandler(CallToolRequestSchema, ...), up to the await
CallToolHandler(name, args, d, draws) ==
  /\ Arrive
  /\ request' = CallToolRequest(name, args)
  /\ UNCHANGED <<toolVars, calls, httpVars, shuffling>>
  /\ IF ~Truthy(GetHandler(toolHandlers, name))
     THEN /\ response' = Throw(UnknownToolError(name, toolHandlers))
          /\ responses' = 1
          /\ pc' = "done"
          /\ invoked' = NoCall
          /\ elapsed' = 0
          /\ work' = NoPromise
          /\ race' = NoPromise
          /\ timer' = NoTimer
          /\ stale' = Retire(stale, timer)
     ELSE LET v == ExtractAndValidate(name, args) IN
          IF v.type = "throw"
          THEN /\ response' = Return(ErrorResult(name, v.error))
               /\ responses' = 1
               /\ pc' = "done"
               /\ invoked' = NoCall
               /\ elapsed' = 0
               /\ work' = NoPromise
               /\ race' = NoPromise
               /\ timer' = NoTimer
               /\ stale' = Retire(stale, timer)
          ELSE LET text == v.value
                   c == InvokeHandler(toolHandlers, name, text.v, draws) IN
               /\ invoked' = [name |-> name, text |-> text]
               /\ elapsed' = d
               /\ stale' = ElapseAll(Retire(stale, timer), d)
               /\ IF c.type = "throw"
                  THEN /\ response' = Return(ErrorResult(name, c.error))
                       /\ responses' = 1
                       /\ pc' = "done"
                       /\ work' = NoPromise
                       /\ race' = NoPromise
                       /\ timer' = NoTimer
                  ELSE LET g == withTimeout(PromiseResolve(c.value),
                                            TOOL_TIMEOUT_MS, name) IN
                       /\ work' = g.work
                       /\ race' = g.race
                       /\ timer' = g.timer
                       /\ pc' = "awaiting"
                       /\ response' = None
                       /\ responses' = 0

\* a tools/call request reaches the stdio server
CallTool(name, args, d, draws) ==
  /\ CallToolHandler(name, args, d, draws)
  /\ UNCHANGED probe

\* the job in which the race takes the outcome of the settled work promise
\* and the function suspended at the await goes on
Resume ==
  /\ MicrotaskPending
  /\ race' = Settle(race, work)
  /\ pc' = "done"
  /\ response' = IF request.method = "tools/call"
                 THEN Respond(request.name, race') ELSE response
  /\ responses' = IF request.method = "tools/call"
                  THEN responses + 1 ELSE responses
  /\ UNCHANGED <<toolVars, calls, pureVars, httpVars, request, work, timer, stale,
                 invoked, elapsed>>

\* the timer's callback runs: reject(new Error(`Tool ... timed out ...`))
TimerFire ==
  /\ ~MicrotaskPending
  /\ timer.set
  /\ timer.remaining = 0
  /\ LET err == TimeoutError(timer.tool, timer.ms)
         wins == race.state = "pending" /\ pc = "awaiting" IN
     /\ race' = Settle(race, Rejected(err))
     /\ pc' = IF wins THEN "done" ELSE pc
     /\ response' = IF wins /\ request.method = "tools/call"
                    THEN Respond(request.name, race') ELSE response
     /\ responses' = IF wins /\ request.method = "tools/call"
                     THEN responses + 1 ELSE responses
  /\ timer' = NoTimer
  /\ UNCHANGED <<toolVars, calls, pureVars, httpVars, request, work, stale, invoked,
                 elapsed>>

\* the callback of an earlier race's timer runs: its reject finds the
\* promise settled
StaleTimerFire(i) ==
  /\ ~MicrotaskPending
  /\ i \in 1..Len(stale)
  /\ stale[i] = 0
  /\ stale' = RemoveAt(stale, i)
  /\ UNCHANGED <<toolVars, calls, pureVars, httpVars, request, pc, work, race, timer, response,
                 responses, invoked, elapsed>>

Remaining == {stale[i] : i \in 1..Len(stale)}
               \cup (IF timer.set THEN {timer.remaining} ELSE {})

MinRemaining == CHOOSE m \in Remaining : \A r \in Remaining : m <= r

\* the event loop is idle until the next timer is due
Advance ==
  /\ ~MicrotaskPending
  /\ Remaining # {}
  /\ MinRemaining > 0
  /\ timer' = Elapse(timer, MinRemaining)
  /\ stale' = ElapseAll(stale, MinRemaining)
  /\ elapsed' = IF pc = "awaiting" /\ request.method = "tools/call"
                THEN elapsed + MinRemaining ELSE elapsed
  /\ UNCHANGED <<toolVars, calls, pureVars, httpVars, request, pc, work, race, response,
                 responses, invoked>>

\* server.setRequestHandler(ListToolsRequestSchema, ...)
ListToolsResult(definitions) == [tools |-> definitions]

ListTools ==
  /\ Arrive
  /\ request' = ListToolsRequest
  /\ response' = Return(ListToolsResult(toolDefinitions))
  /\ responses' = 1
  /\ pc' = "done"
  /\ invoked' = NoCall
  /\ elapsed' = 0
  /\ work' = NoPromise
  /\ race' = NoPromise
  /\ timer' = NoTimer
  /\ stale' = Retire(stale, timer)
  /\ UNCHANGED <<toolVars, calls, pureVars, httpVars>>

\* ------------------------------------------------------------------------
\* Specification of the stdio server
\* ------------------------------------------------------------------------
\* const activeTransports = new Map()
EmptyMap == [k \in {} |-> k]

SessionIndex == 1..MaxSessions

NoSession == [res |-> "none", transport |-> "none"]

NoExchange == [op |-> "none"]

NoHttp ==
  /\ activeTransports = EmptyMap
  /\ sessions = [k \in SessionIndex |-> NoSession]
  /\ inbox = [k \in SessionIndex |-> 0]
  /\ httpResponse = NoExchange

NoShuffle == [pc |-> "idle"]

NoProbe == [fn |-> "none"]

CallIds == 1..MaxCalls

NoInvocation == [pc |-> "idle", timer |-> NoTimer]

Init ==
  /\ toolHandlers = ToolHandlerKeys
  /\ toolDefinitions = ToolDefinitions
  /\ request = NoRequest
  /\ pc = "idle"
  /\ work = NoPromise
  /\ race = NoPromise
  /\ timer = NoTimer
  /\ stale = <<>>
  /\ response = None
  /\ responses = 0
  /\ invoked = NoCall
  /\ elapsed = 0
  /\ NoHttp
  /\ shuffling = NoShuffle
  /\ probe = NoProbe
  /\ calls = [c \in CallIds |-> NoInvocation]

Next ==
  \/ \E name \in RequestedNames, args \in ArgsInputs :
       \E d \in DurationsOf(name, args), draws \in DrawsOf(name, args) :
         CallTool(name, args, d, draws)
  \/ Resume
  \/ TimerFire
  \/ \E i \in 1..(MaxStale + 1) : StaleTimerFire(i)
  \/ Advance
  \/ ListTools

Spec == Init /\ [][Next]_vars

\* the job queue always runs a queued job
FairSpec == Spec /\ WF_vars(Resume)

\* ------------------------------------------------------------------------
\* The timeout guard on its own: withTimeout over any promise
\* ------------------------------------------------------------------------
GuardRequest(toolName, timeoutMs) ==
  [method |-> "withTimeout", name |-> toolName, timeoutMs |-> timeoutMs]

WorkValue == [result |-> "done"]

WorkError == [message |-> "work failed"]

WorkOutcomes == {Fulfilled(WorkValue), Rejected(WorkError)}

GuardPromises == {Pending} \cup WorkOutcomes

GuardTimeouts == {TOOL_TIMEOUT_MS, 2 * TOOL_TIMEOUT_MS}

GuardTools == {"reverse_text", "word_count"}

\* a caller awaits withTimeout(promise, timeoutMs, toolName)
GuardCall(promise, timeoutMs, toolName) ==
  /\ Arrive
  /\ LET g == withTimeout(promise, timeoutMs, toolName) IN
     /\ work' = g.work
     /\ race' = g.race
     /\ timer' = g.timer
  /\ stale' = Retire(stale, timer)
  /\ request' = GuardRequest(toolName, timeoutMs)
  /\ pc' = "awaiting"
  /\ UNCHANGED <<toolVars, calls, pureVars, httpVars, response, responses, invoked, elapsed>>

\* the pending work completes or fails, and the race reacts to it
WorkSettles(outcome) ==
  /\ work.state = "pending"
  /\ work' = outcome
  /\ race' = Settle(race, outcome)
  /\ pc' = "done"
  /\ UNCHANGED <<toolVars, calls, pureVars, httpVars, request, timer, stale, response,
                 responses, invoked, elapsed>>

NextGuard ==
  \/ \E promise \in GuardPromises, timeoutMs \in GuardTimeouts,
        toolName \in GuardTools : GuardCall(promise, timeoutMs, toolName)
  \/ \E outcome \in WorkOutcomes : WorkSettles(outcome)
  \/ Resume
  \/ TimerFire
  \/ \E i \in 1..(MaxStale + 1) : StaleTimerFire(i)
  \/ Advance

SpecGuard == Init /\ [][NextGuard]_vars

\* ------------------------------------------------------------------------
\* The HTTP/SSE variant: session map, /sse, /message, /health
\* ------------------------------------------------------------------------
\* transport.sessionId of the k-th session: a generated, non-empty string
\* that no other session has
SessionId(k) == Str(Rep("s", k))

\* new SSEServerTransport(messageEndpoint, res)
Transport(k) == [t |-> "transport", session |-> k, sessionId |-> SessionId(k)]

\* activeTransports.set(key, value)
MapSet(map, key, value) ==
  [x \in DOMAIN map \cup {key} |-> IF x = key THEN value ELSE map[x]]

\* activeTransports.delete(key)
MapDelete(map, key) == [x \in DOMAIN map \ {key} |-> map[x]]

\* activeTransports.get(key)
MapGet(map, key) == IF key \in DOMAIN map THEN map[key] ELSE Undefined

\* a cleanup that leaves the map as it is
cleanupNothing(map, sessionId) == map

\* const cleanup = () => { activeTransports.delete(sessionId); ... }
cleanup(map, sessionId) == MapDelete(map, sessionId)

\* app.get("/sse"): a client opens a stream and gets a new session
SseConnect(k) ==
  /\ sessions[k] = NoSession
  /\ activeTransports' = MapSet(activeTransports, Transport(k).sessionId, Transport(k))
  /\ sessions' = [sessions EXCEPT ![k] = [res |-> "open", transport |-> "open"]]
  /\ UNCHANGED <<toolVars, calls, pureVars, request, pc, work, race, timer, stale, response,
                 responses, invoked, elapsed, inbox, httpResponse>>

\* res emits "close": the listener registered by res.on("close", cleanup)
ResClose(k) ==
  /\ sessions[k].res = "open"
  /\ activeTransports' = cleanup(activeTransports, SessionId(k))
  /\ sessions' = [sessions EXCEPT ![k].res = "closed"]
  /\ UNCHANGED <<toolVars, calls, pureVars, request, pc, work, race, timer, stale, response,
                 responses, invoked, elapsed, inbox, httpResponse>>

\* a transport whose closing leaves its entry in the map
TransportCloseKeepsEntry(k) ==
  /\ sessions[k].transport = "open"
  /\ sessions' = [sessions EXCEPT ![k].transport = "closed"]
  /\ UNCHANGED <<toolVars, calls, pureVars, request, pc, work, race, timer, stale, response,
                 responses, invoked, elapsed, inbox, httpResponse,
                 activeTransports>>

\* the transport is closed: transport.onclose, which is cleanup
TransportClose(k) ==
  /\ sessions[k].transport = "open"
  /\ activeTransports' = cleanup(activeTransports, SessionId(k))
  /\ sessions' = [sessions EXCEPT ![k].transport = "closed"]
  /\ UNCHANGED <<toolVars, calls, pureVars, request, pc, work, race, timer, stale, response,
                 responses, invoked, elapsed, inbox, httpResponse>>

\* a lookup that falls back to some active transport
LookupAny(map, sessionId) ==
  IF sessionId \in DOMAIN map THEN map[sessionId]
  ELSE IF DOMAIN map # {} THEN map[CHOOSE x \in DOMAIN map : TRUE]
  ELSE Undefined

\* const transport = activeTransports.get(sessionId)
LookupTransport(map, sessionId) == MapGet(map, sessionId)

PostExchange(sessionId, status, error) ==
  [op |-> "post", sessionId |-> sessionId, status |-> status, error |-> error]

\* app.post("/message"); outcome is what transport.handlePostMessage does:
\* it answers the request itself ("accepted") or it throws
PostMessage(sessionId, outcome) ==
  /\ UNCHANGED <<toolVars, calls, pureVars, request, pc, work, race, timer, stale, response,
                 responses, invoked, elapsed, activeTransports, sessions>>
  /\ IF ~Truthy(sessionId)
     THEN /\ httpResponse' =
               PostExchange(sessionId, 400, "sessionId query parameter required")
          /\ inbox' = inbox
     ELSE LET transport == LookupTransport(activeTransports, sessionId) IN
          IF ~Truthy(transport)
          THEN /\ httpResponse' =
                    PostExchange(sessionId, 400, "No active session found")
               /\ inbox' = inbox
          ELSE /\ inbox[transport.session] < MaxInbox
               /\ inbox' = [inbox EXCEPT ![transport.session] = @ + 1]
               /\ httpResponse' =
                    IF outcome = "throws"
                    THEN PostExchange(sessionId, 500, "Internal server error")
                    ELSE PostExchange(sessionId, 202, "")

\* app.get("/health")
Health(map) ==
  [op |-> "health", status |-> "ok", activeSessions |-> Cardinality(DOMAIN map)]

GetHealth ==
  /\ httpResponse' = Health(activeTransports)
  /\ UNCHANGED <<toolVars, calls, pureVars, request, pc, work, race, timer, stale, response,
                 responses, invoked, elapsed, activeTransports, sessions, inbox>>

\* req.query.sessionId: absent, empty, repeated (an array), the id of a
\* session that exists, existed, or never existed
SessionIdInputs ==
  {Undefined, Str(<<>>), EmptyArray}
    \cup {SessionId(k) : k \in 1..(MaxSessions + 1)}

NextHttp ==
  \/ \E k \in SessionIndex : SseConnect(k)
  \/ \E k \in SessionIndex : ResClose(k)
  \/ \E k \in SessionIndex : TransportClose(k)
  \/ \E sessionId \in SessionIdInputs, outcome \in {"accepted", "throws"} :
       PostMessage(sessionId, outcome)
  \/ GetHealth

SpecHttp == Init /\ [][NextHttp]_vars

\* ------------------------------------------------------------------------
\* fisherYatesShuffle, one loop iteration per step
\* ------------------------------------------------------------------------
Alphabet == {"a", "B", " ", "\t"}

\* the strings of at most n characters over the alphabet
TextsUpTo(n) ==
  {Join(chars) : chars \in UNION {[1..len -> Alphabet] : len \in 0..n}}

ShuffleTexts == TextsUpTo(MaxShuffleLen)

\* const chars = text.split(""); for (let i = chars.length - 1; ...
ShuffleBegin(text) ==
  /\ shuffling.pc \in {"idle", "done"}
  /\ shuffling' = [pc |-> "loop", text |-> text, chars |-> Expand(text),
                    i |-> Len(Expand(text)) - 1]
  /\ UNCHANGED <<toolVars, calls, httpVars, dispatchVars, probe>>

\* one iteration: i > 0; j = Math.floor(Math.random() * (i + 1)), which is
\* any index 0..i since 0 <= Math.random() < 1; the exchange; i--
ShuffleStep(j) ==
  /\ shuffling.pc = "loop"
  /\ shuffling.i > 0
  /\ j \in 0..shuffling.i
  /\ shuffling' = [shuffling EXCEPT !.chars = Swap(@, shuffling.i, j),
                                      !.i = @ - 1]
  /\ UNCHANGED <<toolVars, calls, httpVars, dispatchVars, probe>>

\* the loop condition fails: return chars.join("")
ShuffleEnd ==
  /\ shuffling.pc = "loop"
  /\ ~(shuffling.i > 0)
  /\ shuffling' = [pc |-> "done", text |-> shuffling.text,
                    chars |-> shuffling.chars, i |-> shuffling.i,
                    result |-> Join(shuffling.chars)]
  /\ UNCHANGED <<toolVars, calls, httpVars, dispatchVars, probe>>

ShuffleRuns == ShuffleEnd \/ \E j \in 0..(MaxShuffleLen + 1) : ShuffleStep(j)

NextShuffle ==
  \/ \E text \in ShuffleTexts : ShuffleBegin(text)
  \/ \E j \in 0..(MaxShuffleLen + 1) : ShuffleStep(j)
  \/ ShuffleEnd

\* a call that began runs on: nothing suspends the synchronous loop
SpecShuffle == Init /\ [][NextShuffle]_vars /\ WF_vars(ShuffleRuns)

\* ------------------------------------------------------------------------
\* toolHandlers.word_count applied to a string
\* ------------------------------------------------------------------------
WordsTexts == TextsUpTo(MaxWordsLen)

WordCount(text) ==
  /\ probe' = [fn |-> "word_count", text |-> text,
               completion |-> Return(word_count(text))]
  /\ UNCHANGED <<toolVars, calls, httpVars, dispatchVars, shuffling>>

NextWords == \E text \in WordsTexts : WordCount(text)

SpecWords == Init /\ [][NextWords]_vars

\* ------------------------------------------------------------------------
\* The HTTP/SSE variant's tools/call handler, next to the stdio variant's
\* ------------------------------------------------------------------------
\* TypeError: text.<method> is not a function
NoSuchMethodError(method) ==
  [message |-> "is not a function", receiver |-> "text", method |-> method]

\* new Error(`Unknown tool: ${name}`)
HttpUnknownToolError(name) == [message |-> "Unknown tool", name |-> name]

\* a template literal: its fixed text and the values put into it
Template(pieces) == [t |-> "string", template |-> pieces]

\* text.length: of a string, of an array, of anything else
Length(text) ==
  CASE text.t = "string" -> Num(StrLen(text.v))
    [] text.t = "array" -> Num(0)
    [] OTHER -> Undefined

\* count !== 1 ? 's' : ''
HttpPlural(count) == IF count = Num(1) THEN "" ELSE "s"

\* text.split(...), text.toUpperCase(), text.toLowerCase(), text.trim(): the
\* method exists on strings only
CallStringMethod(text, method, result) ==
  IF text.t = "string" THEN Return(result) ELSE Throw(NoSuchMethodError(method))

\* server.setRequestHandler(CallToolRequestSchema, ...) of server.js: the
\* completion of the handler for {name, arguments: args}
HttpCallTool(name, args, draws) ==
  LET text == Or(OptionalText(args), Str(<<>>))
      s == IF text.t = "string" THEN text.v ELSE <<>>
      Content(c, pieces) ==
        IF c.type = "throw" THEN c
        ELSE Return(TextContent(Template(pieces)))
  IN
  CASE name = "reverse_text" ->
         Content(CallStringMethod(text, "split", Reverse(s)),
                 <<"Reversed text: ", Reverse(s)>>)
    [] name = "uppercase_text" ->
         Content(CallStringMethod(text, "toUpperCase", toUpperCase(s)),
                 <<"Uppercase: ", toUpperCase(s)>>)
    [] name = "lowercase_text" ->
         Content(CallStringMethod(text, "toLowerCase", toLowerCase(s)),
                 <<"Lowercase: ", toLowerCase(s)>>)
    [] name = "word_count" ->
         LET count == Len(FilterNonEmpty(SplitWs(Trim(s)))) IN
         Content(CallStringMethod(text, "trim", count),
                 <<"Word count: ", Num(count), " word", HttpPlural(Num(count))>>)
    [] name = "character_count" ->
         LET count == Length(text) IN
         Content(Return(count),
                 <<"Character count: ", count, " character", HttpPlural(count)>>)
    [] name = "shuffle_text" ->
         Content(CallStringMethod(text, "split", fisherYatesShuffle(s, draws)),
                 <<"Shuffled text: ", fisherYatesShuffle(s, draws)>>)
    [] OTHER -> Throw(HttpUnknownToolError(name))

\* one request {name, arguments} given to the handler of each variant
BothVariants(name, args, d, draws) ==
  /\ CallToolHandler(name, args, d, draws)
  /\ probe' = [fn |-> "http", request |-> CallToolRequest(name, args),
               completion |-> HttpCallTool(name, args, draws)]

NextVariants ==
  \/ \E name \in RequestedNames, args \in ArgsInputs :
       \E d \in DurationsOf(name, args), draws \in DrawsOf(name, args) :
         BothVariants(name, args, d, draws)
  \/ Resume
  \/ TimerFire
  \/ \E i \in 1..(MaxStale + 1) : StaleTimerFire(i)
  \/ Advance

SpecVariants == Init /\ [][NextVariants]_vars

\* ------------------------------------------------------------------------
\* Invocations of the stdio handler in flight together
\* ------------------------------------------------------------------------
\* The handler is an async function: a second request can be taken up while
\* the first is suspended at its await. Each invocation has its own name,
\* args, text, result and, inside withTimeout, its own promise and timer.
ConcurrentNames == {"reverse_text", "word_count", "character_count", "shuffle_text"}

ConcurrentArgs == {ArgsObject(Str(<<Run("a", 1), Run(" ", 1)>>)), ArgsObject(Num(7))}

\* the handler from its first statement to the await (or to its return)
CallToolSync(handlers, name, args, draws) ==
  LET req == CallToolRequest(name, args)
      Ended(r) == [pc |-> "done", request |-> req, work |-> NoPromise,
                   race |-> NoPromise, timer |-> NoTimer, response |-> r,
                   responses |-> 1, ran |-> FALSE]
  IN
  IF ~Truthy(GetHandler(handlers, name))
  THEN Ended(Throw(UnknownToolError(name, handlers)))
  ELSE LET v == ExtractAndValidate(name, args) IN
       IF v.type = "throw" THEN Ended(Return(ErrorResult(name, v.error)))
       ELSE LET c == InvokeHandler(handlers, name, v.value.v, draws) IN
            IF c.type = "throw"
            THEN [Ended(Return(ErrorResult(name, c.error))) EXCEPT !.ran = TRUE]
            ELSE LET g == withTimeout(PromiseResolve(c.value),
                                      TOOL_TIMEOUT_MS, name) IN
                 [pc |-> "awaiting", request |-> req, work |-> g.work,
                  race |-> g.race, timer |-> g.timer, response |-> None,
                  responses |-> 0, ran |-> TRUE]

\* a queue that is never seen to hold a job
JobQueuedNever(cs) == FALSE

\* a reaction job is queued for some invocation: it runs before any timer
JobQueued(cs) ==
  \E c \in CallIds : cs[c].pc = "awaiting" /\ IsSettled(cs[c].work)

\* invocation c begins; its handler, when it runs, takes d ms during which
\* nothing else runs and every pending timer gets d ms nearer
BeginCall(c, name, args, d, draws) ==
  /\ calls[c].pc \in {"idle", "done"}
  /\ ~calls[c].timer.set
  /\ LET own == CallToolSync(toolHandlers, name, args, draws)
         dt == IF own.ran THEN d ELSE 0 IN
     calls' = [k \in CallIds |->
                 IF k = c THEN own
                 ELSE [calls[k] EXCEPT !.timer = Elapse(@, dt)]]
  /\ UNCHANGED <<toolVars, httpVars, dispatchVars, pureVars>>

\* invocation c goes on after its await
ResumeCall(c) ==
  /\ calls[c].pc = "awaiting"
  /\ IsSettled(calls[c].work)
  /\ LET settled == Settle(calls[c].race, calls[c].work) IN
     calls' = [calls EXCEPT ![c].race = settled,
                            ![c].pc = "done",
                            ![c].response = Respond(calls[c].request.name, settled),
                            ![c].responses = @ + 1]
  /\ UNCHANGED <<toolVars, httpVars, dispatchVars, pureVars>>

\* the timer of invocation c fires: its reject belongs to c's own race
TimerFireCall(c) ==
  /\ ~JobQueued(calls)
  /\ calls[c].timer.set
  /\ calls[c].timer.remaining = 0
  /\ LET err == TimeoutError(calls[c].timer.tool, calls[c].timer.ms)
         wins == calls[c].pc = "awaiting" /\ calls[c].race.state = "pending"
         settled == Settle(calls[c].race, Rejected(err)) IN
     calls' = [calls EXCEPT
                 ![c].timer = NoTimer,
                 ![c].race = IF calls[c].pc = "idle" THEN @ ELSE settled,
                 ![c].pc = IF wins THEN "done" ELSE @,
                 ![c].response =
                    IF wins THEN Respond(calls[c].request.name, settled) ELSE @,
                 ![c].responses = IF wins THEN @ + 1 ELSE @]
  /\ UNCHANGED <<toolVars, httpVars, dispatchVars, pureVars>>

CallsRemaining == {calls[c].timer.remaining : c \in {k \in CallIds : calls[k].timer.set}}

\* the event loop is idle until the next timer is due
AdvanceCalls ==
  /\ ~JobQueued(calls)
  /\ CallsRemaining # {}
  /\ \A r \in CallsRemaining : r > 0
  /\ LET dt == CHOOSE m \in CallsRemaining : \A r \in CallsRemaining : m <= r IN
     calls' = [k \in CallIds |-> [calls[k] EXCEPT !.timer = Elapse(@, dt)]]
  /\ UNCHANGED <<toolVars, httpVars, dispatchVars, pureVars>>

NextConcurrent ==
  \/ \E c \in CallIds, name \in ConcurrentNames, args \in ConcurrentArgs :
       \E d \in HandlerDurations, draws \in DrawsOf(name, args) :
         BeginCall(c, name, args, d, draws)
  \/ \E c \in CallIds : ResumeCall(c)
  \/ \E c \in CallIds : TimerFireCall(c)
  \/ AdvanceCalls

SpecConcurrent == Init /\ [][NextConcurrent]_vars

\* ------------------------------------------------------------------------
\* Properties of the tools/call handler
\* ------------------------------------------------------------------------
RegisteredNames ==
  {"reverse_text", "uppercase_text", "lowercase_text", "word_count",
   "character_count", "shuffle_text"}

RegisteredOrder ==
  <<"reverse_text", "uppercase_text", "lowercase_text", "word_count",
    "character_count", "shuffle_text">>

IsCall == request.method = "tools/call"

RegisteredCall == IsCall /\ request.name \in RegisteredNames

Answered == pc = "done"

\* the payload of a response that returned {content: [{type, text}], ...}
HasPayload(r) ==
  /\ r.type = "return"
  /\ "content" \in DOMAIN r.value
  /\ Len(r.value.content) = 1
  /\ r.value.content[1].type = "text"

Payload(r) == r.value.content[1].text

FailureEnvelope(r, name) ==
  /\ HasPayload(r)
  /\ "isError" \in DOMAIN r.value
  /\ r.value.isError = TRUE
  /\ DOMAIN Payload(r) = {"success", "tool", "error"}
  /\ Payload(r).success = FALSE
  /\ Payload(r).tool = name

SuccessEnvelope(r, name) ==
  /\ HasPayload(r)
  /\ "isError" \notin DOMAIN r.value
  /\ {"success", "tool", "result"} \subseteq DOMAIN Payload(r)
  /\ "error" \notin DOMAIN Payload(r)
  /\ Payload(r).success = TRUE
  /\ Payload(r).tool = name

FailureWith(r, name, message) ==
  FailureEnvelope(r, name) /\ Payload(r).error.message = message

\* the text argument as the request carries it
TextPresent ==
  /\ request.arguments.t = "args"
  /\ "text" \in DOMAIN request.arguments

TextArgument == request.arguments.text

\* C1: a call whose tool name is not one of the six registered names fails
\* hard: the handler throws an error that lists the six valid names, and
\* neither validation nor a handler runs for it.
C1_UnknownToolFailsHard ==
  (IsCall /\ request.name \notin RegisteredNames) =>
     /\ invoked = NoCall
     /\ pc = "done"
     /\ response.type = "throw"
     /\ response.error.message = "Unknown tool"
     /\ response.error.name = request.name
     /\ response.error.available = RegisteredOrder

\* C2: a call of a registered tool never throws to its caller; when it is
\* answered without a success envelope, the answer is flagged isError and
\* carries exactly {success: false, tool: <requested name>, error: <message>}.
C2_FailuresAreEnvelopes ==
  (RegisteredCall /\ Answered) =>
     /\ response.type = "return"
     /\ ~SuccessEnvelope(response, request.name) =>
          /\ FailureEnvelope(response, request.name)
          /\ Payload(response).error.message
               \in {"Invalid input type", "Input too large", "timed out"}
          /\ Payload(response).error.tool = request.name
     /\ ExtractAndValidate(request.name, request.arguments).type = "throw" =>
          /\ FailureEnvelope(response, request.name)
          /\ Payload(response).error =
               ExtractAndValidate(request.name, request.arguments).error
     /\ race.state = "rejected" =>
          /\ FailureEnvelope(response, request.name)
          /\ Payload(response).error = race.reason

C2_Witness ==
  /\ RegisteredCall
  /\ Answered
  /\ FailureWith(response, request.name, "Input too large")

\* C3: a call of a registered tool whose text argument is present and is not
\* a string is answered with the invalid-type failure envelope, and no
\* handler runs on it.
C3_NonStringRejected ==
  (RegisteredCall /\ TextPresent /\ TextArgument.t # "string") =>
     /\ invoked = NoCall
     /\ Answered => FailureWith(response, request.name, "Invalid input type")

\* C4: a call of a registered tool with a string text: longer than 1,000,000
\* characters, it is answered with the input-too-large failure envelope and
\* no handler runs; otherwise (1,000,000 characters included) the handler is
\* invoked on that very string.
C4_LengthLimit ==
  (RegisteredCall /\ TextPresent /\ TextArgument.t = "string") =>
     IF StrLen(TextArgument.v) > 1000000
     THEN /\ invoked = NoCall
          /\ Answered
          /\ FailureWith(response, request.name, "Input too large")
          /\ Payload(response).error.length = StrLen(TextArgument.v)
     ELSE /\ invoked = [name |-> request.name, text |-> TextArgument]
          /\ Answered => SuccessEnvelope(response, request.name)

C4_Witness ==
  /\ RegisteredCall
  /\ TextPresent
  /\ TextArgument.t = "string"
  /\ StrLen(TextArgument.v) = 1000000
  /\ invoked.name = request.name
  /\ Answered

\* C6: a call of a registered tool whose handler is still running when the
\* 30,000 ms deadline elapses is answered with the timeout failure envelope.
C6_DeadlineEnforced ==
  (RegisteredCall /\ invoked # NoCall /\ Answered /\ elapsed >= 30000) =>
     FailureWith(response, request.name, "timed out")

\* a registered call answered in a well-formed way
WellFormed(r, name) ==
  /\ SuccessEnvelope(r, name) \/ FailureEnvelope(r, name)
  /\ ~(SuccessEnvelope(r, name) /\ FailureEnvelope(r, name))
  /\ ("error" \in DOMAIN Payload(r)) <=> (Payload(r).success = FALSE)

C7_OneWellFormedResponse ==
  RegisteredCall =>
     /\ responses <= 1
     /\ responses = 1 <=> Answered
     /\ Answered => WellFormed(response, request.name)

\* C7: every call of a registered tool is eventually answered, exactly once
\* (a timer that fires afterwards adds no answer), by a success envelope
\* without the error flag or by a failure envelope with isError: true, the
\* error field being present exactly when success is false.
C7_EventuallyOneResponse ==
  /\ []C7_OneWellFormedResponse
  /\ (RegisteredCall /\ ~Answered) ~> (RegisteredCall /\ Answered)

C7_Witness ==
  /\ RegisteredCall
  /\ Answered
  /\ SuccessEnvelope(response, request.name)
  /\ race.state = "fulfilled"
  /\ timer = NoTimer

Names(definitions) == [i \in 1..Len(definitions) |-> definitions[i].name]

\* C8: in every state tools/list returns the six definitions in registration
\* order, and every listed name has exactly one handler.
C8_ListingFixed ==
  /\ Names(ListToolsResult(toolDefinitions).tools) = RegisteredOrder
  /\ (request = ListToolsRequest /\ Answered) =>
        /\ response.type = "return"
        /\ Names(response.value.tools) = RegisteredOrder
  /\ \A i \in 1..Len(toolDefinitions) :
        Cardinality({k \in 1..Len(toolHandlers) :
                       toolHandlers[k] = toolDefinitions[i].name}) = 1

C8_Witness ==
  /\ request = ListToolsRequest
  /\ Answered
  /\ Len(response.value.tools) = 6
  /\ stale # <<>>

\* ------------------------------------------------------------------------
\* Properties of the timeout guard
\* ------------------------------------------------------------------------
\* C5: the race settles with the first of the work and the timer, with the
\* work's own outcome or with the timeout error naming the tool and the
\* deadline given to the guard, and once settled it keeps that outcome
\* whatever happens second.
C5_FirstSettles ==
  [][/\ (race.state = "pending" /\ IsSettled(race')) =>
          IF IsSettled(work')
          THEN race' = work'
          ELSE race' = Rejected([message |-> "timed out",
                                 tool |-> request.name,
                                 ms |-> request.timeoutMs])
     /\ IsSettled(race) => (race' = race \/ race'.state \in {"pending", "none"})
    ]_vars

C5_Witness ==
  /\ request.method = "withTimeout"
  /\ race.state = "rejected"
  /\ race.reason.message = "timed out"
  /\ work.state = "fulfilled"

\* ------------------------------------------------------------------------
\* Properties of the HTTP/SSE variant
\* ------------------------------------------------------------------------
\* the POST that a step handled, if it handled one that left a trace
Posted == httpResponse'.op = "post" /\ (httpResponse' # httpResponse \/ inbox' # inbox)

\* C9: a POST /message without sessionId, or with one that is no key of the
\* session map, gets status 400 and reaches no transport; a POST with a key
\* of the map is handed to the transport stored under that key and to no
\* other.
C9_PostRouting ==
  [][Posted =>
       LET q == httpResponse'.sessionId IN
       IF q = Undefined \/ q \notin DOMAIN activeTransports
       THEN httpResponse'.status = 400 /\ inbox' = inbox
       ELSE /\ httpResponse'.status # 400
            /\ activeTransports[q].sessionId = q
            /\ inbox' = [inbox EXCEPT ![activeTransports[q].session] = @ + 1]
    ]_vars

C9_Witness ==
  /\ httpResponse.op = "post"
  /\ httpResponse.status = 400
  /\ \E k \in SessionIndex :
       /\ httpResponse.sessionId = SessionId(k)
       /\ sessions[k].res = "closed"
  /\ \E k \in SessionIndex : inbox[k] > 0

OpenSessions == {k \in SessionIndex : sessions[k] = [res |-> "open", transport |-> "open"]}

\* C10: the session map holds exactly the sessions still open, each under
\* its own identifier, and /health reports their number.
C10_MapIsOpenSessions ==
  /\ DOMAIN activeTransports = {SessionId(k) : k \in OpenSessions}
  /\ \A k \in OpenSessions : activeTransports[SessionId(k)] = Transport(k)
  /\ Health(activeTransports).activeSessions = Cardinality(OpenSessions)

C10_Witness ==
  /\ \E k \in SessionIndex : sessions[k] = [res |-> "closed", transport |-> "closed"]
  /\ \E k \in SessionIndex : sessions[k] = [res |-> "open", transport |-> "closed"]
  /\ activeTransports = EmptyMap

\* the sessions whose close event (of the response stream or of the
\* transport) has been processed
TornDown == {k \in SessionIndex : "closed" \in {sessions[k].res, sessions[k].transport}}

\* C11: whatever the order of POSTs and close events, once a close event of
\* a session has been processed every POST naming that session gets status
\* 400 and its transport receives nothing more; a transport receives a
\* message only while its session is open and its entry is in the map.
C11_NoDispatchAfterClose ==
  [][\A k \in SessionIndex :
       /\ k \in TornDown =>
            /\ inbox'[k] = inbox[k]
            /\ (Posted /\ httpResponse'.sessionId = SessionId(k)) =>
                 httpResponse'.status = 400
       /\ inbox'[k] # inbox[k] =>
            /\ k \in OpenSessions
            /\ SessionId(k) \in DOMAIN activeTransports
            /\ activeTransports[SessionId(k)] = Transport(k)
    ]_vars

C11_Witness ==
  \E k \in SessionIndex :
    /\ sessions[k] = [res |-> "open", transport |-> "closed"]
    /\ inbox[k] > 0
    /\ httpResponse = PostExchange(SessionId(k), 400, "No active session found")

\* ------------------------------------------------------------------------
\* Properties of the text functions
\* ------------------------------------------------------------------------
\* number of occurrences of the character c in the array chars
RECURSIVE Count(_, _)
Count(chars, c) ==
  IF chars = <<>> THEN 0
  ELSE (IF Head(chars) = c THEN 1 ELSE 0) + Count(Tail(chars), c)

\* same length and same characters with the same multiplicities
IsPermutation(xs, ys) ==
  /\ Len(xs) = Len(ys)
  /\ \A c \in Alphabet : Count(xs, c) = Count(ys, c)
  /\ \A k \in 1..Len(xs) : xs[k] \in Alphabet

C12_ArrayIsPermutation ==
  shuffling.pc \in {"loop", "done"} =>
     /\ IsPermutation(shuffling.chars, Expand(shuffling.text))
     /\ shuffling.i \in -1..(StrLen(shuffling.text) - 1)
     /\ shuffling.pc = "done" =>
          /\ StrLen(shuffling.result) = StrLen(shuffling.text)
          /\ IsPermutation(Expand(shuffling.result), Expand(shuffling.text))
          /\ shuffling.result \in
               {fisherYatesShuffle(shuffling.text, draws) :
                  draws \in DrawsFor(shuffling.text)}
     /\ \A draws \in DrawsFor(shuffling.text) :
          IsPermutation(Expand(fisherYatesShuffle(shuffling.text, draws)),
                        Expand(shuffling.text))

\* C12: for every text and every sequence of draws the shuffle returns a
\* permutation of the text (same length, same characters with the same
\* multiplicities); the array is a permutation of the text after every
\* iteration, i only decreases while the loop runs, and every run that
\* began ends.
C12_ShufflePermutes ==
  /\ []C12_ArrayIsPermutation
  /\ [][(shuffling.pc = "loop" /\ shuffling'.pc = "loop") =>
          (shuffling.i > 0 /\ shuffling'.i = shuffling.i - 1)]_vars
  /\ (shuffling.pc = "loop") ~> (shuffling.pc = "done")

C12_Witness ==
  /\ shuffling.pc = "done"
  /\ StrLen(shuffling.text) = MaxShuffleLen
  /\ shuffling.result # shuffling.text
  /\ shuffling.result # Reverse(shuffling.text)
  /\ \E c \in Alphabet : Count(Expand(shuffling.text), c) = 2

\* the number of maximal runs of non-whitespace characters: the positions
\* where such a run begins
WordStarts(chars) ==
  {p \in 1..Len(chars) :
     ~IsSpace(chars[p]) /\ (p = 1 \/ IsSpace(chars[p - 1]))}

\* C13: word_count of a string returns a success envelope whose word_count
\* is the number of maximal runs of non-whitespace characters of the
\* string: whitespace at either end adds nothing, consecutive whitespace
\* separates once, and the empty and the all-whitespace strings give 0.
C13_WordCount ==
  probe.fn = "word_count" =>
     LET chars == Expand(probe.text)
         n == Cardinality(WordStarts(chars)) IN
     /\ SuccessEnvelope(probe.completion, "word_count")
     /\ Payload(probe.completion).word_count = n
     /\ Payload(probe.completion).input_length = Len(chars)
     /\ Payload(probe.completion).result =
          <<n, " word", IF n = 1 THEN "" ELSE "s">>
     /\ (\A p \in 1..Len(chars) : IsSpace(chars[p])) => n = 0

C13_Witness ==
  /\ probe.fn = "word_count"
  /\ probe.text = <<Run("\t", 1), Run("a", 1), Run(" ", 1), Run("\t", 1)>>
  /\ Payload(probe.completion).word_count = 1

\* ------------------------------------------------------------------------
\* The two variants compared
\* ------------------------------------------------------------------------
\* how the caller of a handler sees its completion
Classify(r) ==
  IF r.type = "throw" THEN "hard failure"
  ELSE IF "content" \notin DOMAIN r.value THEN "no content"
  ELSE IF "isError" \in DOMAIN r.value /\ r.value.isError THEN "soft failure"
  ELSE "success"

\* the value the stdio handler computed, from its success envelope
StdioValue(r, name) ==
  CASE name = "word_count" -> Num(Payload(r).word_count)
    [] name = "character_count" -> Num(Payload(r).total_characters)
    [] OTHER -> Payload(r).result

\* the value the HTTP handler computed: the one put into its template
HttpValue(r) == Payload(r).template[2]

BothAnswered ==
  /\ IsCall
  /\ Answered
  /\ probe.fn = "http"
  /\ probe.request = request

\* C14: the same request {name, arguments} given to the call handler of
\* each variant is classified alike by both (success, soft failure flagged
\* isError, or hard failure), and when both succeed they computed the same
\* value.
C14_VariantsAgree ==
  BothAnswered =>
     /\ Classify(response) = Classify(probe.completion)
     /\ Classify(response) = "success" =>
          StdioValue(response, request.name) = HttpValue(probe.completion)

\* where the variants do agree: a registered tool on a string of at most
\* 1,000,000 characters
VariantsAgreeOnValidStrings ==
  (BothAnswered /\ RegisteredCall
     /\ ExtractAndValidate(request.name, request.arguments).type = "return") =>
     /\ Classify(response) = "success"
     /\ Classify(probe.completion) = "success"
     /\ StdioValue(response, request.name) = HttpValue(probe.completion)

\* ------------------------------------------------------------------------
\* Properties of invocations in flight together
\* ------------------------------------------------------------------------
\* the response a deterministic tool owes to a name and arguments, whatever
\* else is going on
Expected(name, args) ==
  LET v == ExtractAndValidate(name, args) IN
  IF v.type = "throw" THEN Return(ErrorResult(name, v.error))
  ELSE InvokeHandler(ToolHandlerKeys, name, v.value.v, <<>>)

\* what belongs to invocation c alone (its timer's time left aside)
Own(cs, c) == [cs[c] EXCEPT !.timer = @.set]

C15_OwnResponse ==
  /\ toolHandlers = ToolHandlerKeys
  /\ toolDefinitions = ToolDefinitions
  /\ \A c \in CallIds :
       (calls[c].pc # "idle" /\ calls[c].request.name # "shuffle_text") =>
          LET name == calls[c].request.name
              args == calls[c].request.arguments IN
          /\ calls[c].pc = "done" =>
               /\ calls[c].response = Expected(name, args)
               /\ calls[c].responses = 1
          /\ calls[c].pc = "awaiting" =>
               /\ calls[c].responses = 0
               /\ calls[c].work = Fulfilled(Expected(name, args).value)

\* C15: however invocations in flight together and the timers of answered
\* invocations are interleaved, an invocation of a tool other than
\* shuffle_text is answered once, with the response its own tool name and
\* arguments determine; the registry never changes, and no step changes
\* what belongs to two invocations.
C15_NoInterference ==
  /\ []C15_OwnResponse
  /\ [][\A c1, c2 \in CallIds :
           (Own(calls, c1) # Own(calls', c1) /\ Own(calls, c2) # Own(calls', c2))
             => c1 = c2]_vars

C15_Witness ==
  \E c1, c2 \in CallIds :
    /\ calls[c1].pc = "done"
    /\ calls[c1].race.state = "fulfilled"
    /\ calls[c1].timer.set
    /\ calls[c1].timer.remaining = 0
    /\ calls[c2].pc = "awaiting"
    /\ calls[c2].request # calls[c1].request
    /\ calls[c2].request.name # "shuffle_text"
    /\ calls[c1].request.name # "shuffle_text"

=============================================================================
